---- MODULE Spec2Model ----
(***************************************************************************)
(* Model of androidvector.py: AndroidVector.effect, _parse_child and       *)
(* _get_color.  The SVG document is an element table; the depth-first      *)
(* recursion of _parse_child is an explicit frame stack.                   *)
(*                                                                         *)
(* Numbers are exact rationals <<n, d>> (d > 0, lowest terms).  All the    *)
(* decimal literals the documents use are dyadic or integral, so the       *)
(* float arithmetic of the program is exact on them, except the '%f'       *)
(* formatting of the scale factor, which is modelled by Format6.           *)
(***************************************************************************)
EXTENDS Integers, Sequences, FiniteSets, TLC

VARIABLES doc, svgAttrib, pc, errmsg, exc, excNode, vector, etree,
          unique_id, ancestors, rootIdx, frames, labels, calls, flat

vars == <<doc, svgAttrib, pc, errmsg, exc, excNode, vector, etree,
          unique_id, ancestors, rootIdx, frames, labels, calls, flat>>

----------------------------------------------------------------------------
(* Dictionaries (attrib, parsed style): functions whose domain is the set  *)
(* of keys present.                                                        *)

EmptyMap == [k \in {} |-> 0]

Has(m, k) == k \in DOMAIN m

Reverse(s) == [i \in 1..Len(s) |-> s[Len(s) + 1 - i]]

Last(s) == s[Len(s)]

----------------------------------------------------------------------------
(* Exact rational arithmetic standing for Python floats.                   *)

Abs(x) == IF x < 0 THEN -x ELSE x

RECURSIVE GCD(_, _)
GCD(a, b) == IF b = 0 THEN a ELSE GCD(b, a % b)

RNorm(n, d) ==
    LET g == GCD(Abs(n), Abs(d))
        s == IF d < 0 THEN -1 ELSE 1
    IN  <<(s * n) \div g, (s * d) \div g>>

RInt(n) == <<n, 1>>

RMul(a, b) == RNorm(a[1] * b[1], a[2] * b[2])

RAdd(a, b) == RNorm(a[1] * b[2] + b[1] * a[2], a[2] * b[2])

RLess(a, b) == a[1] * b[2] < b[1] * a[2]

RMax(a, b) == IF RLess(a, b) THEN b ELSE a

RECURSIVE Pow10(_)
Pow10(e) == IF e = 0 THEN 1 ELSE 10 * Pow10(e - 1)

(* float(s) of a decimal literal with mantissa m and e fractional digits.  *)
Float(lit) == RNorm(lit.m, Pow10(lit.e))

(* '%f' % x : x rounded to six fractional digits (x >= 0 here).            *)
Format6(x) ==
    LET num == x[1] * 1000000
        q   == num \div x[2]
        r   == num % x[2]
    IN  [m |-> IF 2 * r >= x[2] THEN q + 1 ELSE q, e |-> 6]

----------------------------------------------------------------------------
(* Input documents.                                                        *)
(*                                                                         *)
(* An element is [tag, attrib, children]; attrib is a dictionary.  The     *)
(* root <svg> is element 0 and lives in doc.root; the others are           *)
(* doc.nodes[1..6].  Attribute texts are represented by their lexical      *)
(* structure: a decimal literal is [m, e] (mantissa, fractional digits);   *)
(* a viewBox is the sequence of its whitespace-separated tokens; a color   *)
(* is [k, v] with k the syntactic shape the resolver tests ("hex" starts   *)
(* with '#', "none", "url" is url(#id), "other"); an id [pre, n] is the    *)
(* text pre followed by the digits of n (no digits when n = -1), so that   *)
(* id.startswith(p) is a test of pre.                                      *)

Lit(m, e) == [m |-> m, e |-> e]

Num(n) == [k |-> "num", m |-> n, e |-> 0]

Word == [k |-> "str", m |-> 0, e |-> 0]

Id(pre, n) == [pre |-> pre, n |-> n]

Hex(v) == [k |-> "hex", v |-> v, id |-> Id("", 0)]

NoneColor == [k |-> "none", v |-> "none", id |-> Id("", 0)]

Named(v) == [k |-> "other", v |-> v, id |-> Id("", 0)]

Url(id) == [k |-> "url", v |-> "url", id |-> id]

Href(hash, id) == [hash |-> hash, id |-> id]

Stop(attrib) == [tag |-> "stop", attrib |-> attrib]

StopColor(c) == Stop("style" :> ("stop-color" :> c))

Gradient(id, tag, attrib, stops) ==
    [id |-> id, tag |-> tag, attrib |-> attrib, stops |-> stops]

(* The children of <defs>, in document order.                              *)
Defs ==
    << Gradient(Id("radialGradient", 1), "radialGradient",
                "href" :> Href(TRUE, Id("g", 2)), <<>>),
       Gradient(Id("g", 2), "linearGradient", EmptyMap,
                <<StopColor(Hex("#00ff00")), StopColor(Hex("#ffffff"))>>),
       Gradient(Id("g", 1), "radialGradient",
                "href" :> Href(TRUE, Id("g", 2)), <<>>),
       Gradient(Id("linearGradient", 3), "pattern",
                "href" :> Href(FALSE, Id("g", 2)), <<>>),
       Gradient(Id("linearGradient", 4), "linearGradient", EmptyMap, <<>>),
       Gradient(Id("linearGradient", 5), "linearGradient",
                "href" :> Href(TRUE, Id("g", 50)), <<>>),
       Gradient(Id("linearGradient", 6), "linearGradient",
                "href" :> Href(TRUE, Id("g", 6)), <<>>),
       Gradient(Id("g", 6), "linearGradient", EmptyMap, <<>>),
       Gradient(Id("linearGradient", 7), "linearGradient",
                "href" :> Href(TRUE, Id("g", 7)), <<>>),
       Gradient(Id("g", 7), "linearGradient", EmptyMap, <<Stop(EmptyMap)>>),
       Gradient(Id("linearGradient", 8), "linearGradient",
                "href" :> Href(TRUE, Id("g", 8)), <<>>),
       Gradient(Id("g", 8), "linearGradient", EmptyMap,
                <<Stop("style" :> ("stop-opacity" :> Lit(1, 0)))>>),
       Gradient(Id("linearGradient", 9), "linearGradient",
                "href" :> Href(TRUE, Id("g", 9)), <<>>),
       Gradient(Id("g", 9), "linearGradient", EmptyMap,
                <<StopColor(Url(Id("radialGradient", 1)))>>),
       Gradient(Id("linearGradient", 10), "linearGradient",
                "href" :> Href(TRUE, Id("g", 10)), <<>>),
       Gradient(Id("g", 10), "linearGradient", EmptyMap,
                <<StopColor(NoneColor)>>),
       Gradient(Id("linearGradient", 11), "linearGradient",
                "href" :> Href(TRUE, Id("linearGradient", 12)), <<>>),
       Gradient(Id("linearGradient", 12), "linearGradient", EmptyMap,
                <<StopColor(Url(Id("linearGradient", 11)))>>) >>

Scale(a, b) == [f |-> "scale", a |-> a, b |-> b]

Translate(a, b) == [f |-> "translate", a |-> a, b |-> b]

Rotate90 == [f |-> "rotate", a |-> Lit(90, 0), b |-> Lit(0, 0)]

Transforms ==
    { Rotate90, Scale(Lit(2, 0), Lit(3, 0)), Translate(Lit(1, 0), Lit(0, 0)),
      Scale(Lit(1, 2), Lit(1, 2)) }

Opt(key, values) == {EmptyMap} \cup {key :> v : v \in values}

Node(tag, attrib, children) ==
    [tag |-> tag, attrib |-> attrib, children |-> children]

PathData == << <<1, 0>>, <<2, 1>> >>

BaseStyle == "fill" :> Hex("#ff0000")

(* Element 1 is <defs>; 2 and 4 are containers, 4 inside 2; 3, 5 and 6 are *)
(* leaves under the root, under 2 and under 4.  A leaf that is a path has  *)
(* path data unless it is in noD, and an element has an id if it is in     *)
(* ids.  tr gives the transform attributes and style6 the style of leaf 6. *)
Tree(tags, noD, ids, tr, style6) ==
    LET attr(n) ==
            (IF n \in ids THEN "id" :> Id("el", n) ELSE EmptyMap)
         @@ (IF Has(tr, n) THEN "transform" :> tr[n] ELSE EmptyMap)
         @@ (IF tags[n] = "path" /\ n \notin noD
             THEN "d" :> PathData ELSE EmptyMap)
         @@ (IF tags[n] = "path" /\ n = 5 THEN "style" :> BaseStyle
             ELSE IF tags[n] = "path" /\ n = 6 THEN style6 ELSE EmptyMap)
    IN  << Node("defs", EmptyMap, <<>>),
           Node(tags[2], attr(2), <<4, 5>>),
           Node(tags[3], attr(3), <<>>),
           Node(tags[4], attr(4), <<6>>),
           Node(tags[5], attr(5), <<>>),
           Node(tags[6], attr(6), <<>>) >>

BaseTags == (2 :> "g") @@ (3 :> "path") @@ (4 :> "g") @@ (5 :> "path") @@ (6 :> "path")

BaseTr == (2 :> Rotate90) @@ (6 :> Scale(Lit(2, 0), Lit(3, 0)))

BaseTree == Tree(BaseTags, {}, {2}, BaseTr, "style" :> BaseStyle)

ViewBox(w, h) == <<Num(0), Num(0), w, h>>

BaseRoot ==
    "width" :> "100mm" @@ "height" :> "50mm"
        @@ "viewBox" :> ViewBox(Num(1000), Num(500))

Document(rootAttrib, nodes) ==
    [root |-> Node("svg", rootAttrib, <<1, 2, 3>>), nodes |-> nodes, defs |-> Defs]

Dims == {Num(0), Num(500), Num(1000), Num(3000), Word}

(* Root metadata varies, the tree is the base tree.                        *)
RootDocs ==
    { Document(w @@ h @@ vb @@ i @@ t, BaseTree) :
        w \in Opt("width", {"100mm"}), h \in Opt("height", {"50mm"}),
        vb \in Opt("viewBox",
                   {ViewBox(a, b) : a \in Dims, b \in Dims}
                       \cup { <<Num(0), Num(0), Num(100)>>,
                              <<Num(0), Num(0), Num(100), Num(100), Num(1)>>,
                              <<Word, Word, Num(1000), Num(1000)>> }),
        i \in Opt("id", {Id("drawing", 1)}),
        t \in Opt("transform", {Translate(Lit(5, 0), Lit(5, 0))}) }

LeafTags == {"g", "path", "rect"}

(* Element kinds and missing path data vary.                               *)
KindDocs ==
    { Document(BaseRoot,
               Tree((2 :> t2) @@ (3 :> t3) @@ (4 :> t4) @@ (5 :> t5) @@ (6 :> t6),
                    noD, {}, BaseTr, "style" :> BaseStyle)) :
        t2 \in {"g", "a"}, t4 \in {"g", "switch"},
        t3 \in LeafTags, t5 \in LeafTags, t6 \in LeafTags,
        noD \in SUBSET {3, 5, 6} }

(* Declared identifiers vary.                                              *)
IdDocs ==
    { Document(BaseRoot, Tree(BaseTags, noD, ids, BaseTr, "style" :> BaseStyle)) :
        ids \in SUBSET (2..6), noD \in {{}, {5}, {3, 6}} }

(* Transforms along the chain root / 2 / 4 / 6 vary.                       *)
TransformDocs ==
    { Document("width" :> "100mm" @@ "height" :> "50mm"
                   @@ "viewBox" :> ViewBox(Num(500), Num(500)),
               Tree(BaseTags, {}, {}, a @@ b @@ c @@ (3 :> Rotate90), EmptyMap)) :
        a \in Opt(2, Transforms), b \in Opt(4, Transforms), c \in Opt(6, Transforms) }

Alphas == {Lit(0, 0), Lit(5, 1), Lit(1, 0)}

Fills ==
    { Hex("#ff0000"), NoneColor, Named("red"), Url(Id("linearGradient", 99)),
      Url(Id("radialGradient", 1)), Url(Id("g", 1)), Url(Id("g", 2)) }
        \cup { Url(Id("linearGradient", n)) : n \in 3..11 }

Strokes ==
    { Hex("#0000ff"), NoneColor, Url(Id("linearGradient", 9)),
      Url(Id("linearGradient", 12)) }

(* The style of leaf 6 varies: paint and opacities ...                     *)
PaintDocs ==
    { Document(BaseRoot,
               Tree(BaseTags, {}, {}, BaseTr,
                    "style" :> (f @@ fo @@ o @@ s @@ so))) :
        f \in Opt("fill", Fills), fo \in Opt("fill-opacity", Alphas),
        o \in Opt("opacity", {Lit(5, 1), Lit(1, 0)}),
        s \in Opt("stroke", Strokes), so \in Opt("stroke-opacity", {Lit(5, 1)}) }

(* ... and the remaining style keys.                                       *)
StrokeDocs ==
    { Document(BaseRoot,
               Tree(BaseTags, {}, {}, BaseTr,
                    "style" :> (fr @@ sw @@ lc @@ lj @@ ml @@ x))) :
        fr \in Opt("fill-rule", {"evenodd", "nonzero", "inherit"}),
        sw \in Opt("stroke-width", {"2px"}),
        lc \in Opt("stroke-linecap", {"round"}),
        lj \in Opt("stroke-linejoin", {"bevel"}),
        ml \in Opt("stroke-miterlimit", {"4"}),
        x  \in Opt("display", {"inline"}) }

Docs == RootDocs \cup KindDocs \cup IdDocs \cup TransformDocs
            \cup PaintDocs \cup StrokeDocs

----------------------------------------------------------------------------
(* Geometry: simpletransform / cubicsuperpath as used by _parse_child.     *)

(* csp.parsePath: the points of the path, as floats.                       *)
ParsePath(d) == [i \in 1..Len(d) |-> <<RInt(d[i][1]), RInt(d[i][2])>>]

(* st.parseTransform: the 2x3 matrix of a transform attribute.             *)
ParseTransform(t) ==
    LET z == RInt(0)
        o == RInt(1)
    IN  CASE t.f = "scale"     -> << <<Float(t.a), z, z>>, <<z, Float(t.b), z>> >>
          [] t.f = "translate" -> << <<o, z, Float(t.a)>>, <<z, o, Float(t.b)>> >>
          [] t.f = "rotate"    -> << <<z, RInt(-1), z>>, <<o, z, z>> >>

ApplyToPoint(m, pt) ==
    << RAdd(RAdd(RMul(m[1][1], pt[1]), RMul(m[1][2], pt[2])), m[1][3]),
       RAdd(RAdd(RMul(m[2][1], pt[1]), RMul(m[2][2], pt[2])), m[2][3]) >>

(* st.applyTransformToPath: every point of p, in place.                    *)
ApplyTransformToPath(m, p) == [i \in 1..Len(p) |-> ApplyToPoint(m, p[i])]

(* 'e-' in str(x).lower(): a float prints with a negative exponent exactly *)
(* when it is non-zero and smaller than 1e-4 in magnitude.                 *)
PrintsExponent(x) == x[1] # 0 /\ Abs(x[1]) <= (x[2] - 1) \div 10000

(* Lines 179-184.                                                          *)
RemoveSmall(p) ==
    [i \in 1..Len(p) |->
        [j \in 1..2 |-> IF PrintsExponent(p[i][j]) THEN RInt(0) ELSE p[i][j]]]

(* The element of the flattening loop visited at step i (line 171).        *)
IterOrderForward(anc) == anc

IterOrder(anc) == Reverse(anc)

----------------------------------------------------------------------------
(* _get_color (lines 257-305).  The result is [k |-> "color", c |-> text], *)
(* [k |-> "None"], or [k |-> "RecursionDepthExceeded"] when the chain of   *)
(* recursive calls is longer than the interpreter allows.                  *)

RecursionLimit == 5

Absent == [k |-> "None", c |-> ""]

Raised == [k |-> "RecursionDepthExceeded", c |-> ""]

Solid(c) == [k |-> "color", c |-> c]

(* doc.find(...defs/*[@id='id']): the first child of defs with that id.    *)
FindById(defs, id) ==
    LET hits == {i \in 1..Len(defs) : defs[i].id = id}
    IN  IF hits = {} THEN <<>>
        ELSE <<defs[CHOOSE i \in hits : \A j \in hits : i <= j]>>

IsGradientIdAny(id) == TRUE

(* id.startswith('linearGradient') or id.startswith('radialGradient').     *)
IsGradientId(id) == id.pre \in {"linearGradient", "radialGradient"}

(* link_id, with a leading '#' removed (lines 282-284).                    *)
LinkId(href) == href.id

(* doc.find(...defs/*[@id='id']/stop): the first stop below such a child.  *)
FindStop(defs, id) ==
    LET hits == {i \in 1..Len(defs) : defs[i].id = id /\ defs[i].stops # <<>>}
    IN  IF hits = {} THEN <<>>
        ELSE <<defs[CHOOSE i \in hits : \A j \in hits : i <= j].stops[1]>>

RECURSIVE GetColor(_, _, _)
GetColor(defs, color, depth) ==
    IF depth > RecursionLimit THEN Raised
    ELSE IF color.k = "hex" THEN Solid(color.v)
    ELSE IF color.k = "none" THEN Absent
    ELSE IF color.k = "url" /\ IsGradientId(color.id) THEN
        LET gradient == FindById(defs, color.id)
        IN  IF gradient = <<>> \/ ~Has(gradient[1].attrib, "href") THEN Absent
            ELSE
                LET link_id == LinkId(gradient[1].attrib["href"])
                    found   == FindStop(defs, link_id)
                IN  IF found = <<>> THEN Absent
                    ELSE
                        LET stop == found[1]
                        IN  IF ~Has(stop.attrib, "style") THEN Absent
                            ELSE IF ~Has(stop.attrib["style"], "stop-color")
                                 THEN Absent
                            ELSE GetColor(defs, stop.attrib["style"]["stop-color"],
                                          depth + 1)
    ELSE Absent

----------------------------------------------------------------------------
(* Style mapping of a path (lines 190-244).                                *)

SetAlways(key, color) == key :> color.c

SetColor(key, color) == IF color.k = "color" THEN key :> color.c ELSE EmptyMap

AlphaIgnoringOpacity(style, key) ==
    IF Has(style, key) THEN "a" :> Float(style[key]) ELSE EmptyMap

(* Lines 210-214 and 231-235: "a" is set to the alpha when one is emitted. *)
Alpha(style, key) ==
    LET opacity == IF Has(style, "opacity") THEN Float(style["opacity"]) ELSE RInt(1)
    IN  IF Has(style, key) \/ Has(style, "opacity")
        THEN "a" :> (IF Has(style, key) THEN RMul(opacity, Float(style[key]))
                     ELSE opacity)
        ELSE EmptyMap

Rename(m, key) == IF Has(m, "a") THEN key :> m["a"] ELSE EmptyMap

(* self.__unittouu(text): the host's unit conversion, left uninterpreted.  *)
UnitToUU(text) == <<"unittouu", text>>

DefaultStyle ==
    "strokeColor" :> "#000000" @@ "strokeWidth" :> <<"text", "1">>
        @@ "fillColor" :> "#FFFFFF"

(* fill and stroke are the resolved colors (Absent when the key is not in  *)
(* the style).                                                             *)
StyleAttrs(style, fill, stroke) ==
       (IF Has(style, "fill") THEN SetColor("fillColor", fill) ELSE EmptyMap)
    @@ Rename(Alpha(style, "fill-opacity"), "fillAlpha")
    @@ (IF Has(style, "fill-rule") /\ style["fill-rule"] = "evenodd"
        THEN "fillType" :> "evenOdd"
        ELSE IF Has(style, "fill-rule") /\ style["fill-rule"] = "nonzero"
        THEN "fillType" :> "nonZero" ELSE EmptyMap)
    @@ (IF Has(style, "stroke") THEN SetColor("strokeColor", stroke) ELSE EmptyMap)
    @@ (IF Has(style, "stroke-width")
        THEN "strokeWidth" :> UnitToUU(style["stroke-width"]) ELSE EmptyMap)
    @@ Rename(Alpha(style, "stroke-opacity"), "strokeAlpha")
    @@ (IF Has(style, "stroke-linecap")
        THEN "strokeLineCap" :> style["stroke-linecap"] ELSE EmptyMap)
    @@ (IF Has(style, "stroke-linejoin")
        THEN "strokeLineJoin" :> style["stroke-linejoin"] ELSE EmptyMap)
    @@ (IF Has(style, "stroke-miterlimit")
        THEN "strokeMiterLimit" :> style["stroke-miterlimit"] ELSE EmptyMap)

----------------------------------------------------------------------------
(* The traversal.                                                          *)

El(tag, src, attrs, children) ==
    [tag |-> tag, src |-> src, attrs |-> attrs, children |-> children]

(* A call of _parse_child in progress.  entry, pushes, pops and applied    *)
(* are history: the ancestor list at entry, the appends and pops this call *)
(* made itself, and the elements whose transform it applied.               *)
Frame(src, anc) ==
    [src |-> src, pc |-> "entry", i |-> 0, el |-> El("", src, EmptyMap, <<>>),
     p |-> <<>>, order |-> <<>>, entry |-> anc, pushes |-> 0, pops |-> 0,
     applied |-> <<>>]

Attrib(n) == IF n = 0 THEN svgAttrib ELSE doc.nodes[n].attrib

Tag(n) == doc.nodes[n].tag

IsCompatible(tag) == tag = "g" \/ tag = "path"

(* el.append(subel) when subel is not None; subel is <<>> for None.        *)
PrependSubel(children, subel) == subel \o children

AppendSubel(children, subel) == children \o subel

PopKeep(anc) == anc

(* ancestors.pop()                                                         *)
Pop(anc) == SubSeq(anc, 1, Len(anc) - 1)

SameUniqueId(u) == u

(* self.unique_id += 1                                                     *)
NextUniqueId(u) == u + 1

Init ==
    /\ doc \in Docs
    /\ svgAttrib = doc.root.attrib
    /\ pc = "start"
    /\ errmsg = <<>>
    /\ exc = "none"
    /\ excNode = 0
    /\ vector = El("vector", 0, EmptyMap, <<>>)
    /\ etree = <<>>
    /\ unique_id = <<>>
    /\ ancestors = <<>>
    /\ rootIdx = 0
    /\ frames = <<>>
    /\ labels = <<>>
    /\ calls = <<>>
    /\ flat = <<>>

Abort(message, attrs) ==
    /\ errmsg' = Append(errmsg, message)
    /\ pc' = "aborted"
    /\ vector' = [vector EXCEPT !.attrs = attrs]
    /\ UNCHANGED <<doc, svgAttrib, exc, excNode, etree, unique_id, ancestors,
                   rootIdx, frames, labels, calls, flat>>

Raise(name, node) ==
    /\ exc' = name
    /\ excNode' = node
    /\ pc' = "raised"

(* effect, lines 43-87: validation, scale factor, root attributes.         *)
EffectStart ==
    /\ pc = "start"
    /\ LET svg   == doc.root.attrib
           named == "name" :> (IF Has(svg, "id") THEN svg["id"] ELSE Id("svgimage", -1))
       IN
       IF ~Has(svg, "width")
       THEN Abort("The document width attribute is missing.", named)
       ELSE IF ~Has(svg, "height")
       THEN Abort("The document height attribute is missing.", named)
       ELSE
       LET sized == named
                 @@ "width" :> <<"dp", "uutounit px", UnitToUU(svg["width"])>>
                 @@ "height" :> <<"dp", "uutounit px", UnitToUU(svg["height"])>>
       IN
       IF ~Has(svg, "viewBox")
       THEN Abort("The document viewBox attribute is missing.", sized)
       ELSE IF Len(svg["viewBox"]) # 4
       THEN Abort("The document viewBox attribute is not formatted correctly.", sized)
       ELSE
       LET view_box_split == svg["viewBox"]
       IN
       IF view_box_split[3].k # "num" \/ view_box_split[4].k # "num"
       THEN /\ Raise("ValueError", 0)
            /\ vector' = [vector EXCEPT !.attrs = sized]
            /\ UNCHANGED <<doc, svgAttrib, errmsg, etree, unique_id, ancestors,
                           rootIdx, frames, labels, calls, flat>>
       ELSE
       LET view_width  == Float(view_box_split[3])
           view_height == Float(view_box_split[4])
           largest     == RMax(view_width, view_height)
       IN
       IF largest[1] = 0
       THEN /\ Raise("ZeroDivisionError", 0)
            /\ vector' = [vector EXCEPT !.attrs = sized]
            /\ UNCHANGED <<doc, svgAttrib, errmsg, etree, unique_id, ancestors,
                           rootIdx, frames, labels, calls, flat>>
       ELSE
       LET scale_fact == RNorm(1000 * largest[2], largest[1])
           text       == Format6(scale_fact)
       IN  /\ svgAttrib' = ("transform" :> Scale(text, text)) @@ svgAttrib
           /\ vector' = [vector EXCEPT !.attrs =
                            sized
                         @@ "viewportWidth" :> RMul(view_width, scale_fact)
                         @@ "viewportHeight" :> RMul(view_height, scale_fact)]
           /\ unique_id' = <<0>>
           /\ ancestors' = <<0>>
           /\ rootIdx' = 1
           /\ pc' = "loop"
           /\ UNCHANGED <<doc, errmsg, exc, excNode, etree, frames, labels,
                          calls, flat>>

(* effect, lines 88-92: a compatible child of the root is parsed.          *)
EffectCall ==
    /\ pc = "loop" /\ frames = <<>>
    /\ rootIdx <= Len(doc.root.children)
    /\ IsCompatible(Tag(doc.root.children[rootIdx]))
    /\ frames' = <<Frame(doc.root.children[rootIdx], ancestors)>>
    /\ UNCHANGED <<doc, svgAttrib, pc, errmsg, exc, excNode, vector, etree,
                   unique_id, ancestors, rootIdx, labels, calls, flat>>

(* effect, lines 88-91: an incompatible child of the root is ignored.      *)
EffectSkip ==
    /\ pc = "loop" /\ frames = <<>>
    /\ rootIdx <= Len(doc.root.children)
    /\ ~IsCompatible(Tag(doc.root.children[rootIdx]))
    /\ rootIdx' = rootIdx + 1
    /\ UNCHANGED <<doc, svgAttrib, pc, errmsg, exc, excNode, vector, etree,
                   unique_id, ancestors, frames, labels, calls, flat>>

(* effect, line 97: the element tree is saved.                             *)
EffectFinish ==
    /\ pc = "loop" /\ frames = <<>>
    /\ rootIdx > Len(doc.root.children)
    /\ etree' = <<vector>>
    /\ pc' = "done"
    /\ UNCHANGED <<doc, svgAttrib, errmsg, exc, excNode, vector, unique_id,
                   ancestors, rootIdx, frames, labels, calls, flat>>

(* The call whose final frame is top returns subel (<<>> for None) to its  *)
(* caller, which appends it and moves to its next child (lines 92-94 and   *)
(* 154-156).  anc is the ancestor list at the return.                      *)
Return(top, subel, anc) ==
    LET rest == SubSeq(frames, 1, Len(frames) - 1)
    IN  /\ calls' = Append(calls,
                      [src |-> top.src, entry |-> top.entry, exit |-> anc,
                       pushes |-> top.pushes, pops |-> top.pops,
                       none |-> subel = <<>>])
        /\ IF rest = <<>>
           THEN /\ vector' = [vector EXCEPT
                                !.children = AppendSubel(vector.children, subel)]
                /\ rootIdx' = rootIdx + 1
                /\ frames' = rest
           ELSE /\ frames' = [rest EXCEPT
                                ![Len(rest)].el.children =
                                    AppendSubel(rest[Len(rest)].el.children, subel),
                                ![Len(rest)].i = rest[Len(rest)].i + 1]
                /\ UNCHANGED <<vector, rootIdx>>

(* Lines 144-148: the name attribute of the element made for src.          *)
NameOf(src, el_tag) ==
    IF Has(Attrib(src), "id") THEN Attrib(src)["id"] ELSE Id(el_tag, unique_id[1])

AssignName(src, el_tag) ==
    IF Has(Attrib(src), "id")
    THEN UNCHANGED <<unique_id, labels>>
    ELSE /\ unique_id' = <<NextUniqueId(unique_id[1])>>
         /\ labels' = Append(labels, [src |-> src, kind |-> el_tag, n |-> unique_id[1]])

(* _parse_child, lines 131-138: an incompatible tag gives None.            *)
ParseUnsupported ==
    /\ pc = "loop" /\ frames # <<>>
    /\ LET top == Last(frames)
       IN  /\ top.pc = "entry"
           /\ ~IsCompatible(Tag(top.src))
           /\ Return(top, <<>>, ancestors)
    /\ UNCHANGED <<doc, svgAttrib, pc, errmsg, exc, excNode, etree, unique_id,
                   ancestors, labels, flat>>

(* _parse_child, lines 131-152: a group is named and pushed.               *)
ParseGroup ==
    /\ pc = "loop" /\ frames # <<>>
    /\ LET top == Last(frames)
       IN  /\ top.pc = "entry"
           /\ Tag(top.src) = "g"
           /\ AssignName(top.src, "group")
           /\ ancestors' = Append(ancestors, top.src)
           /\ frames' = [frames EXCEPT ![Len(frames)] =
                  [top EXCEPT !.pc = "loop", !.i = 1, !.pushes = @ + 1,
                              !.el = El("group", top.src,
                                        "name" :> NameOf(top.src, "group"), <<>>)]]
    /\ UNCHANGED <<doc, svgAttrib, pc, errmsg, exc, excNode, vector, etree,
                   rootIdx, calls, flat>>

(* _parse_child, lines 153-154: the next child of a group is parsed.       *)
GroupCall ==
    /\ pc = "loop" /\ frames # <<>>
    /\ LET top == Last(frames)
       IN  /\ top.pc = "loop"
           /\ top.i <= Len(doc.nodes[top.src].children)
           /\ frames' = Append(frames,
                               Frame(doc.nodes[top.src].children[top.i], ancestors))
    /\ UNCHANGED <<doc, svgAttrib, pc, errmsg, exc, excNode, vector, etree,
                   unique_id, ancestors, rootIdx, labels, calls, flat>>

(* _parse_child, lines 157 and 246: a group pops itself and is returned.   *)
GroupReturn ==
    /\ pc = "loop" /\ frames # <<>>
    /\ LET top == Last(frames)
       IN  /\ top.pc = "loop"
           /\ top.i > Len(doc.nodes[top.src].children)
           /\ ancestors' = Pop(ancestors)
           /\ Return([top EXCEPT !.pops = @ + 1], <<top.el>>, Pop(ancestors))
    /\ UNCHANGED <<doc, svgAttrib, pc, errmsg, exc, excNode, etree, unique_id,
                   labels, flat>>

(* _parse_child, lines 131-165: a path without path data gives None, after *)
(* it was named.                                                           *)
ParsePathNoData ==
    /\ pc = "loop" /\ frames # <<>>
    /\ LET top == Last(frames)
       IN  /\ top.pc = "entry"
           /\ Tag(top.src) = "path"
           /\ ~Has(Attrib(top.src), "d")
           /\ AssignName(top.src, "path")
           /\ Return(top, <<>>, ancestors)
    /\ UNCHANGED <<doc, svgAttrib, pc, errmsg, exc, excNode, etree, ancestors,
                   flat>>

(* _parse_child, lines 131-170: a path with data is named, parsed and      *)
(* pushed.                                                                 *)
ParsePathData ==
    /\ pc = "loop" /\ frames # <<>>
    /\ LET top == Last(frames)
       IN  /\ top.pc = "entry"
           /\ Tag(top.src) = "path"
           /\ Has(Attrib(top.src), "d")
           /\ AssignName(top.src, "path")
           /\ ancestors' = Append(ancestors, top.src)
           /\ frames' = [frames EXCEPT ![Len(frames)] =
                  [top EXCEPT !.pc = "apply", !.i = 1, !.pushes = @ + 1,
                              !.p = ParsePath(Attrib(top.src)["d"]),
                              !.order = IterOrder(Append(ancestors, top.src)),
                              !.el = El("path", top.src,
                                        "name" :> NameOf(top.src, "path"), <<>>)]]
    /\ UNCHANGED <<doc, svgAttrib, pc, errmsg, exc, excNode, vector, etree,
                   rootIdx, calls, flat>>

(* _parse_child, lines 171-175: one iteration of the flattening loop.      *)
PathApply ==
    /\ pc = "loop" /\ frames # <<>>
    /\ LET top == Last(frames)
       IN  /\ top.pc = "apply"
           /\ top.i <= Len(top.order)
           /\ LET anc == top.order[top.i]
              IN  frames' = [frames EXCEPT ![Len(frames)] =
                     IF Has(Attrib(anc), "transform")
                     THEN [top EXCEPT
                             !.i = @ + 1,
                             !.applied = Append(@, anc),
                             !.p = ApplyTransformToPath(
                                      ParseTransform(Attrib(anc)["transform"]), @)]
                     ELSE [top EXCEPT !.i = @ + 1]]
    /\ UNCHANGED <<doc, svgAttrib, pc, errmsg, exc, excNode, vector, etree,
                   unique_id, ancestors, rootIdx, labels, calls, flat>>

(* _parse_child, lines 176-246: the path pops itself, small numbers are    *)
(* removed, the path data and the style attributes are set and the element *)
(* is returned, unless resolving a color raises.                           *)
PathFinish ==
    /\ pc = "loop" /\ frames # <<>>
    /\ LET top == Last(frames)
       IN  /\ top.pc = "apply"
           /\ top.i > Len(top.order)
           /\ LET p      == RemoveSmall(top.p)
                  attrib == Attrib(top.src)
                  style  == IF Has(attrib, "style") THEN attrib["style"] ELSE EmptyMap
                  fill   == IF Has(style, "fill")
                            THEN GetColor(doc.defs, style["fill"], 1) ELSE Absent
                  stroke == IF Has(style, "stroke")
                            THEN GetColor(doc.defs, style["stroke"], 1) ELSE Absent
                  el     == [top.el EXCEPT !.attrs =
                                @ @@ "pathData" :> <<"formatPath", p>>
                                  @@ (IF Has(attrib, "style")
                                      THEN StyleAttrs(style, fill, stroke)
                                      ELSE DefaultStyle)]
                  done   == [top EXCEPT !.pops = @ + 1, !.p = p, !.el = el]
              IN  /\ ancestors' = Pop(ancestors)
                  /\ flat' = Append(flat, [src |-> top.src, applied |-> top.applied,
                                           p |-> p])
                  /\ IF fill = Raised \/ stroke = Raised
                     THEN /\ Raise("RecursionDepthExceeded", top.src)
                          /\ frames' = [frames EXCEPT ![Len(frames)] =
                                           [top EXCEPT !.pops = @ + 1, !.p = p]]
                          /\ UNCHANGED <<vector, rootIdx, calls>>
                     ELSE /\ Return(done, <<el>>, Pop(ancestors))
                          /\ UNCHANGED <<pc, exc, excNode>>
    /\ UNCHANGED <<doc, svgAttrib, errmsg, etree, unique_id, labels>>

Next ==
    \/ EffectStart
    \/ EffectCall
    \/ EffectSkip
    \/ EffectFinish
    \/ ParseUnsupported
    \/ ParseGroup
    \/ GroupCall
    \/ GroupReturn
    \/ ParsePathNoData
    \/ ParsePathData
    \/ PathApply
    \/ PathFinish

Spec == Init /\ [][Next]_vars

----------------------------------------------------------------------------
(* Vocabulary of the properties.                                           *)

RECURSIVE Elements(_)
Elements(el) ==
    {el} \cup UNION {Elements(el.children[i]) : i \in DOMAIN el.children}

(* Every output element made so far: those already appended, and the       *)
(* groups still being filled.                                              *)
Output ==
    UNION {Elements(vector.children[i]) : i \in DOMAIN vector.children}
        \cup UNION {Elements(frames[k].el) : k \in {j \in DOMAIN frames : frames[j].pc = "loop"}}

EmittedPaths == {e \in Output : e.tag = "path"}

StyleOf(n) == doc.nodes[n].attrib["style"]

Styled(n) == Has(doc.nodes[n].attrib, "style")

ParentOf(n) ==
    IF n \in {doc.root.children[i] : i \in DOMAIN doc.root.children} THEN 0
    ELSE CHOOSE m \in DOMAIN doc.nodes :
            n \in {doc.nodes[m].children[i] : i \in DOMAIN doc.nodes[m].children}

(* The chain document root, ancestor groups, n.                            *)
RECURSIVE Chain(_)
Chain(n) == IF n = 0 THEN <<0>> ELSE Append(Chain(ParentOf(n)), n)

RECURSIVE ApplyInOrder(_, _)
ApplyInOrder(order, p) ==
    IF order = <<>> THEN p
    ELSE ApplyInOrder(Tail(order),
                      ApplyTransformToPath(ParseTransform(Attrib(Head(order))["transform"]), p))

Declaring(chain) == SelectSeq(chain, LAMBDA a : Has(Attrib(a), "transform"))

LeafToRoot(n) ==
    ApplyInOrder(Declaring(Reverse(Chain(n))), ParsePath(doc.nodes[n].attrib["d"]))

RootToLeaf(n) ==
    ApplyInOrder(Declaring(Chain(n)), ParsePath(doc.nodes[n].attrib["d"]))

----------------------------------------------------------------------------
(* Properties.                                                             *)

IsNumeric(token) == token.k = "num"

WellFormedViewBox(vb) == Len(vb) = 4 /\ \A i \in 1..4 : IsNumeric(vb[i])

ExpectedMessage(svg) ==
    IF ~Has(svg, "width") THEN "The document width attribute is missing."
    ELSE IF ~Has(svg, "height") THEN "The document height attribute is missing."
    ELSE IF ~Has(svg, "viewBox") THEN "The document viewBox attribute is missing."
    ELSE "The document viewBox attribute is not formatted correctly."

(* C1: once effect() has run on a document whose root lacks width, height  *)
(* or viewBox, or whose viewBox is not exactly 4 numeric tokens, exactly   *)
(* the corresponding message has been reported, no exception was raised,   *)
(* no output tree is stored and no child was traversed.                    *)
C1_InvalidRootAborts ==
    LET svg == doc.root.attrib
        invalid == \/ ~Has(svg, "width")
                   \/ ~Has(svg, "height")
                   \/ ~Has(svg, "viewBox")
                   \/ ~WellFormedViewBox(svg["viewBox"])
    IN  (pc # "start" /\ invalid) =>
            /\ pc = "aborted"
            /\ exc = "none"
            /\ errmsg = <<ExpectedMessage(svg)>>
            /\ etree = <<>>
            /\ frames = <<>> /\ calls = <<>> /\ rootIdx = 0

(* C6: once effect() has validated a document with width, height and a    *)
(* 4-token viewBox, no exception is raised, the emitted viewport is the    *)
(* viewBox size times 1000 / max(viewBox width, viewBox height), and the   *)
(* conversion ends with one output tree.                                   *)
C6_ValidRootCompletes ==
    LET svg == doc.root.attrib
        valid == /\ Has(svg, "width") /\ Has(svg, "height")
                 /\ Has(svg, "viewBox") /\ Len(svg["viewBox"]) = 4
    IN  (pc # "start" /\ valid) =>
            /\ exc = "none"
            /\ pc \in {"loop", "done"}
            /\ errmsg = <<>>
            /\ LET w == Float(svg["viewBox"][3])
                   h == Float(svg["viewBox"][4])
                   m == IF RLess(w, h) THEN h ELSE w
               IN  /\ m[1] * vector.attrs["viewportWidth"][1] * w[2]
                          = 1000 * w[1] * m[2] * vector.attrs["viewportWidth"][2]
                   /\ m[1] * vector.attrs["viewportHeight"][1] * h[2]
                          = 1000 * h[1] * m[2] * vector.attrs["viewportHeight"][2]
            /\ pc = "done" => etree = <<vector>>

(* C2: the transforms applied to the points of a path with geometry are    *)
(* those of the chain root, ancestor groups, path, taken from the path     *)
(* back to the root, skipping the elements that declare none; the scale    *)
(* installed on the root is the last one applied; the resulting points are *)
(* those of the leaf-to-root order, and differ from the emitted ones in    *)
(* the root-to-leaf order whenever the two orders disagree.                *)
C2_LeafToRootOrder ==
    /\ \A i \in DOMAIN flat :
        LET n == flat[i].src
            order == Declaring(Reverse(Chain(n)))
            leafFirst == RemoveSmall(LeafToRoot(n))
            rootFirst == RemoveSmall(RootToLeaf(n))
        IN  /\ flat[i].applied = order
            /\ Last(flat[i].applied) = 0
            /\ Attrib(0)["transform"].f = "scale"
            /\ flat[i].p = leafFirst
            /\ rootFirst # leafFirst => flat[i].p # rootFirst
    /\ \A e \in EmittedPaths :
        \E i \in DOMAIN flat :
            /\ flat[i].src = e.src
            /\ e.attrs["pathData"] = <<"formatPath", flat[i].p>>

(* A path two groups deep has been flattened through three transforms      *)
(* whose two orders give different points.                                 *)
C2_Witness ==
    \E i \in DOMAIN flat :
        /\ Len(Chain(flat[i].src)) = 4
        /\ Len(flat[i].applied) >= 3
        /\ RemoveSmall(RootToLeaf(flat[i].src)) # RemoveSmall(LeafToRoot(flat[i].src))

(* C4: the identity-label counter starts at 0 and only ever grows by one   *)
(* per synthesized label, whatever the kind or depth of the element: the   *)
(* k-th label synthesized in the traversal has suffix k - 1, the counter   *)
(* equals the number of labels synthesized so far, and no two output       *)
(* elements without a declared identifier share a suffix.                  *)
C4_CounterNeverReused ==
    /\ unique_id = <<>> => labels = <<>> /\ frames = <<>>
    /\ unique_id # <<>> =>
        /\ unique_id[1] = Len(labels)
        /\ \A i \in DOMAIN labels : labels[i].n = i - 1
        /\ \A i, j \in DOMAIN labels : i < j => labels[i].n < labels[j].n
    /\ \A e \in Output :
        ~Has(doc.nodes[e.src].attrib, "id") =>
            \E i \in DOMAIN labels :
                /\ labels[i].src = e.src
                /\ e.attrs["name"] = Id(e.tag, labels[i].n)
    /\ \A e1, e2 \in Output :
        (/\ ~Has(doc.nodes[e1.src].attrib, "id")
         /\ ~Has(doc.nodes[e2.src].attrib, "id")
         /\ e1.src # e2.src)
            => e1.attrs["name"].n # e2.attrs["name"].n

(* A finished traversal that labelled two groups at different depths and   *)
(* three paths in different subtrees, one of them dropped.                 *)
C4_Witness ==
    /\ pc = "done"
    /\ Len(labels) = 5
    /\ \E i, j \in DOMAIN labels :
        labels[i].kind = "group" /\ labels[j].kind = "group" /\ i # j
    /\ \E i \in DOMAIN labels : \A e \in Output : e.src # labels[i].src

IsPrefix(s, t) == Len(s) <= Len(t) /\ SubSeq(t, 1, Len(s)) = s

(* C9 as stated: every finished call of _parse_child, whatever it          *)
(* returned, pushed exactly once and popped exactly once and left the      *)
(* ancestor list as it found it.                                           *)
C9_EveryCallPushesOnce ==
    \A i \in DOMAIN calls :
        /\ calls[i].pushes = 1
        /\ calls[i].pops = 1
        /\ calls[i].exit = calls[i].entry

(* C9 amended: a call that returns an element pushed exactly once and      *)
(* popped exactly once; a call that returns None did neither; every call   *)
(* leaves the ancestor list as it found it; while a call runs, the list    *)
(* it was entered with stays a prefix of the ancestor list, with at most   *)
(* its own element on top of it; after the traversal the list is the       *)
(* document root alone.                                                    *)
C9_StackDiscipline ==
    /\ \A i \in DOMAIN calls :
        /\ calls[i].exit = calls[i].entry
        /\ calls[i].pushes = calls[i].pops
        /\ calls[i].pushes = (IF calls[i].none THEN 0 ELSE 1)
    /\ \A k \in DOMAIN frames :
        /\ IsPrefix(frames[k].entry, ancestors)
        /\ frames[k].pushes - frames[k].pops \in {0, 1}
        /\ frames[k].pushes - frames[k].pops = 1 =>
               ancestors[Len(frames[k].entry) + 1] = frames[k].src
        /\ k = Len(frames) =>
               Len(ancestors) = Len(frames[k].entry) + frames[k].pushes - frames[k].pops
        /\ k > 1 => frames[k].entry = Append(frames[k - 1].entry, frames[k - 1].src)
        /\ k = 1 => frames[k].entry = <<0>>
    /\ (pc = "loop" /\ frames = <<>>) => ancestors = <<0>>
    /\ pc = "done" => ancestors = <<0>>

(* A finished traversal in which one call returned None and another        *)
(* returned an element.                                                    *)
C9_Witness ==
    /\ pc = "done"
    /\ \E i, j \in DOMAIN calls :
        /\ calls[i].none /\ calls[i].pushes = 0
        /\ ~calls[j].none /\ calls[j].pushes = 1 /\ Len(calls[j].entry) = 3

(* The structure of an output tree: source element, kind, children.        *)
RECURSIVE Shape(_)
Shape(el) ==
    [src |-> el.src, tag |-> el.tag,
     children |-> [i \in DOMAIN el.children |-> Shape(el.children[i])]]

Dropped(n) ==
    \/ doc.nodes[n].tag \notin {"g", "path"}
    \/ doc.nodes[n].tag = "path" /\ ~Has(doc.nodes[n].attrib, "d")

RECURSIVE Concat(_)
Concat(ss) == IF ss = <<>> THEN <<>> ELSE Head(ss) \o Concat(Tail(ss))

(* The input tree below element n without the dropped elements.           *)
RECURSIVE Kept(_)
Kept(n) ==
    LET node == IF n = 0 THEN doc.root ELSE doc.nodes[n]
        kids == IF n # 0 /\ node.tag = "path" THEN <<>> ELSE node.children
    IN  [src |-> n,
         tag |-> IF n = 0 THEN "vector" ELSE IF node.tag = "g" THEN "group" ELSE "path",
         children |-> Concat([i \in DOMAIN kids |->
                                IF Dropped(kids[i]) THEN <<>> ELSE <<Kept(kids[i])>>])]

(* C7: the stored output tree is the input tree without the elements that  *)
(* are neither group nor path and without the paths that have no path      *)
(* data: every other group (also an empty one) and path is there once,     *)
(* under the output element of its input parent, in input order; and no    *)
(* exception is ever raised at a dropped element.                          *)
C7_OutputIsInputMinusDrops ==
    /\ pc = "done" => /\ Len(etree) = 1
                      /\ Shape(etree[1]) = Kept(0)
                      /\ exc = "none"
    /\ (exc # "none" /\ excNode # 0) => ~Dropped(excNode)

(* A stored tree whose input had an unsupported container with a child, a  *)
(* path without data at the root, and a group without children.            *)
C7_Witness ==
    /\ pc = "done"
    /\ doc.nodes[4].tag = "switch"
    /\ doc.nodes[3].tag = "path" /\ Dropped(3)
    /\ doc.nodes[5].tag = "g"
    /\ \E e \in Elements(etree[1]) : e.src = 5 /\ e.children = <<>>
    /\ \A e \in Elements(etree[1]) : e.src \notin {3, 4, 6}

Times(a, b) == RNorm(a[1] * b[1], a[2] * b[2])

One == <<1, 1>>

(* C5: for every styled path that was converted, fillAlpha is emitted      *)
(* exactly when the style has fill-opacity or opacity, and is opacity (1   *)
(* if absent) times fill-opacity (1 if absent); likewise strokeAlpha with  *)
(* stroke-opacity; opacity itself is never an attribute.                   *)
C5_AlphaIsProduct ==
    \A e \in EmittedPaths :
        Styled(e.src) =>
            LET style == StyleOf(e.src)
                value(key) == IF Has(style, key) THEN Float(style[key]) ELSE One
            IN  /\ Has(e.attrs, "fillAlpha")
                       <=> (Has(style, "fill-opacity") \/ Has(style, "opacity"))
                /\ Has(e.attrs, "fillAlpha") =>
                       e.attrs["fillAlpha"] = Times(value("opacity"), value("fill-opacity"))
                /\ Has(e.attrs, "strokeAlpha")
                       <=> (Has(style, "stroke-opacity") \/ Has(style, "opacity"))
                /\ Has(e.attrs, "strokeAlpha") =>
                       e.attrs["strokeAlpha"] = Times(value("opacity"), value("stroke-opacity"))
                /\ ~Has(e.attrs, "opacity")

(* fill:#ff0000;fill-opacity:0.5;opacity:0.5 gave fillColor #ff0000 and    *)
(* fillAlpha 0.25, and strokeAlpha 0.5.                                    *)
C5_Witness ==
    \E e \in EmittedPaths :
        /\ Styled(e.src)
        /\ DOMAIN StyleOf(e.src) = {"fill", "fill-opacity", "opacity"}
        /\ StyleOf(e.src)["fill"] = Hex("#ff0000")
        /\ StyleOf(e.src)["fill-opacity"] = Lit(5, 1)
        /\ StyleOf(e.src)["opacity"] = Lit(5, 1)
        /\ e.attrs["fillColor"] = "#ff0000"
        /\ e.attrs["fillAlpha"] = <<1, 4>>
        /\ e.attrs["strokeAlpha"] = <<1, 2>>

(* The color values for which the resolver has nothing to return: none, an *)
(* unrecognized syntax, a reference to a missing element or to one whose   *)
(* id is not a gradient id, a gradient without link, a link to a missing   *)
(* element, to one without stop, to one whose stop has no style, no        *)
(* stop-color, or the stop-color none.                                     *)
Unresolvable ==
    { NoneColor, Named("red"), Url(Id("linearGradient", 99)), Url(Id("g", 1)),
      Url(Id("g", 2)), Url(Id("linearGradient", 4)), Url(Id("linearGradient", 5)),
      Url(Id("linearGradient", 6)), Url(Id("linearGradient", 7)),
      Url(Id("linearGradient", 8)), Url(Id("linearGradient", 10)) }

Paint(n, key) == IF Styled(n) /\ Has(StyleOf(n), key) THEN <<StyleOf(n)[key]>> ELSE <<>>

NoColor(n, key) ==
    \/ Paint(n, key) = <<>>
    \/ Paint(n, key)[1] \in Unresolvable
    \/ GetColor(doc.defs, Paint(n, key)[1], 1) = Absent

(* C8: a converted path whose fill (stroke) resolves to nothing has no     *)
(* fillColor (strokeColor) attribute, its fillAlpha (strokeAlpha) is       *)
(* emitted exactly when the style has the opacity keys, and a path whose   *)
(* fill and stroke both resolve to nothing or are not given is converted   *)
(* without an exception.                                                   *)
C8_UnresolvedColorIsOmitted ==
    /\ \A e \in EmittedPaths :
        Styled(e.src) =>
            /\ NoColor(e.src, "fill") => ~Has(e.attrs, "fillColor")
            /\ NoColor(e.src, "stroke") => ~Has(e.attrs, "strokeColor")
            /\ Has(e.attrs, "fillAlpha")
                   <=> (Has(StyleOf(e.src), "fill-opacity") \/ Has(StyleOf(e.src), "opacity"))
            /\ Has(e.attrs, "strokeAlpha")
                   <=> (Has(StyleOf(e.src), "stroke-opacity") \/ Has(StyleOf(e.src), "opacity"))
    /\ \A i \in DOMAIN flat :
        (/\ Styled(flat[i].src)
         /\ NoColor(flat[i].src, "fill")
         /\ NoColor(flat[i].src, "stroke"))
            => /\ ~(exc # "none" /\ excNode = flat[i].src)
               /\ \E e \in EmittedPaths : e.src = flat[i].src

(* fill:none;fill-opacity:0.5 gave fillAlpha and no fillColor.             *)
C8_Witness ==
    \E e \in EmittedPaths :
        /\ Styled(e.src)
        /\ Paint(e.src, "fill") = <<NoneColor>>
        /\ Has(StyleOf(e.src), "fill-opacity")
        /\ Has(e.attrs, "fillAlpha")
        /\ ~Has(e.attrs, "fillColor")

IsGradientTag(tag) == tag \in {"linearGradient", "radialGradient"}

HasGradientPrefix(id) == id.pre = "linearGradient" \/ id.pre = "radialGradient"

(* The stop-color that the element with this id links to: the stop-color   *)
(* of the first stop of the element its href names, <<>> if there is none. *)
LinkedStopColor(id) ==
    LET here == {i \in DOMAIN doc.defs : doc.defs[i].id = id}
        g    == doc.defs[CHOOSE i \in here : \A j \in here : i <= j]
    IN  IF here = {} \/ ~Has(g.attrib, "href") THEN <<>>
        ELSE LET there == {i \in DOMAIN doc.defs : doc.defs[i].id = g.attrib["href"].id}
                 l     == doc.defs[CHOOSE i \in there : \A j \in there : i <= j]
             IN  IF there = {} \/ l.stops = <<>> THEN <<>>
                 ELSE IF ~Has(l.stops[1].attrib, "style") THEN <<>>
                 ELSE IF ~Has(l.stops[1].attrib["style"], "stop-color") THEN <<>>
                 ELSE <<l.stops[1].attrib["style"]["stop-color"]>>

TagOf(id) ==
    LET here == {i \in DOMAIN doc.defs : doc.defs[i].id = id}
    IN  IF here = {} THEN <<>>
        ELSE <<doc.defs[CHOOSE i \in here : \A j \in here : i <= j].tag>>

(* The fillColor attribute an element has, as a resolver result.           *)
FillColorOf(e) == IF Has(e.attrs, "fillColor") THEN Solid(e.attrs["fillColor"]) ELSE Absent

(* C3 as stated: for a converted path with fill url(#id), if the element   *)
(* with that id has a gradient tag and links to a gradient whose first     *)
(* stop has stop-color c, fillColor is what c resolves to; if its tag is   *)
(* not a gradient tag there is no fillColor.                               *)
C3_TagDecides ==
    \A e \in EmittedPaths :
        (Paint(e.src, "fill") # <<>> /\ Paint(e.src, "fill")[1].k = "url") =>
            LET id == Paint(e.src, "fill")[1].id
            IN  /\ (TagOf(id) # <<>> /\ IsGradientTag(TagOf(id)[1])
                        /\ LinkedStopColor(id) # <<>>)
                       => FillColorOf(e) = GetColor(doc.defs, LinkedStopColor(id)[1], 1)
                /\ (TagOf(id) # <<>> /\ ~IsGradientTag(TagOf(id)[1]))
                       => FillColorOf(e) = Absent

(* C3 amended: the text of the id decides.  If the id starts with          *)
(* linearGradient or radialGradient and the element with that id, whatever *)
(* its tag, links to an element whose first stop has stop-color c,         *)
(* fillColor is what c resolves to; if the id starts with neither, there   *)
(* is no fillColor, whatever the tag of the element.                       *)
C3_IdPrefixDecides ==
    \A e \in EmittedPaths :
        (Paint(e.src, "fill") # <<>> /\ Paint(e.src, "fill")[1].k = "url") =>
            LET id == Paint(e.src, "fill")[1].id
            IN  /\ (HasGradientPrefix(id) /\ LinkedStopColor(id) # <<>>)
                       => FillColorOf(e) = GetColor(doc.defs, LinkedStopColor(id)[1], 1)
                /\ ~HasGradientPrefix(id) => FillColorOf(e) = Absent

(* fill:url(#radialGradient1), linked to g2 whose first stop is #00ff00,   *)
(* gave fillColor #00ff00.                                                 *)
C3_Witness ==
    \E e \in EmittedPaths :
        /\ Paint(e.src, "fill") = <<Url(Id("radialGradient", 1))>>
        /\ LinkedStopColor(Id("radialGradient", 1)) = <<Hex("#00ff00")>>
        /\ e.attrs["fillColor"] = "#00ff00"

(* Whether resolving color comes back to a gradient id already seen.       *)
RECURSIVE Revisits(_, _)
Revisits(color, seen) ==
    IF color.k # "url" \/ ~HasGradientPrefix(color.id) THEN FALSE
    ELSE IF color.id \in seen THEN TRUE
    ELSE IF LinkedStopColor(color.id) = <<>> THEN FALSE
    ELSE Revisits(LinkedStopColor(color.id)[1], seen \cup {color.id})

(* C10: a path whose fill or stroke runs into a cycle of gradient          *)
(* references is converted all the same: the resolver ends, the color      *)
(* counts as absent and the attribute is left out.                         *)
C10_CycleResolvesToAbsent ==
    \A i \in DOMAIN flat :
        LET n == flat[i].src
        IN  /\ (Paint(n, "fill") # <<>> /\ Revisits(Paint(n, "fill")[1], {})) =>
                   /\ exc = "none"
                   /\ \E e \in EmittedPaths : e.src = n /\ ~Has(e.attrs, "fillColor")
            /\ (Paint(n, "stroke") # <<>> /\ Revisits(Paint(n, "stroke")[1], {})) =>
                   /\ exc = "none"
                   /\ \E e \in EmittedPaths : e.src = n /\ ~Has(e.attrs, "strokeColor")

====
